---- MODULE Spec2Model ----
(***************************************************************************)
(* The ticket queue of the SUNAT token scraper: the HTTP handlers          *)
(* create-ticket and get-token, the processQueue worker driven by a 1 s    *)
(* ticker, the Redis ticket store (payload / result / error records and    *)
(* the queue list), the in-process NodeCache (result cache and             *)
(* ticket-lookup entries) and the token resolver.                          *)
(*                                                                         *)
(* In processQueue every await is a step boundary; an HTTP handler is one  *)
(* step, its answer a function of the state it finds.  TTLs are expiry     *)
(* actions the environment may take.  In Spec the Redis commands succeed.  *)
(***************************************************************************)
EXTENDS Integers, Sequences, FiniteSets, TLC

\* ---------------------------------------------------------------- bounds
\* Number of ticket ids uuidv4 hands out before create-ticket is cut off.
MaxTickets == 2

\* Number of calls of scraper.getSunatTokens followed step by step.
MaxAttempts == 2

\* Number of browsers chromium.launch starts before launches are cut off.
MaxBrowsers == 2

\* Number of timer periods counted while the browser stays idle.
MaxPeriods == 2

\* ------------------------------------------------------------- constants
MAX_CONCURRENT_WORKERS == 3
MAX_RETRIES == 3

TicketIds == 1 .. MaxTickets
NoTicket == 0

Targets == {"sire", "cpe", "unified-platform"}
TargetLists == { << >>, <<"sire">>, <<"sire", "cpe">> }

Rucs == {"20100000001"}
SolUsernames == {"USER1"}
SolKeys == {"key1", "key2"}
Credentials == [ruc : Rucs, sol_username : SolUsernames, sol_key : SolKeys]

\* The bodies create-ticket is sent: GetSunatTokenPayload.
Body(key, targets) == [ruc |-> "20100000001", sol_username |-> "USER1",
                       sol_key |-> key, targets |-> targets]
Bodies == { Body("key1", <<"sire">>), Body("key1", <<"sire", "cpe">>),
            Body("key2", <<"sire">>) }

\* The connections to /ws.  A socket is out of the Set wsClients ("none"),
\* in it with readyState 1 ("open"), or in it with another readyState
\* ("closing": the close handler has not run yet).
Sockets == {"ws1", "ws2"}

APP_API_KEY == "secret"
\* The value of headers["x-api-key"] when the header is missing.
NoApiKey == ""
ApiKeys == {APP_API_KEY, "wrong", NoApiKey}

\* A token is tagged with the credentials of the login that produced it.
NullToken == <<>>
TokenOf(p) == <<p.ruc, p.sol_username, p.sol_key>>

\* GetSunatTokenResult with all three fields null.
EmptyBundle == [sire |-> NullToken, cpe |-> NullToken, unified_platform |-> NullToken]

NoBody == [ruc |-> "", sol_username |-> "", sol_key |-> "", targets |-> <<>>]

\* Absent Redis string (redis.get answers null).
Nil == "nil"

\* The messages of the error records.  The branch of part_002:213-223 that
\* writes ERR_NO_TOKEN needs a null from resolveSunatTokens, which
\* scraper.getSunatTokens never returns.
ERR_NOT_ALL == "not all requested targets could be resolved"
ERR_NO_TOKEN == "failed to get token"
ERR_INTERNAL == "internal server error"

Range(s) == { s[k] : k \in 1 .. Len(s) }

VARIABLES
    queue,          \* Redis list scraping_queue
    payload,        \* Redis ticket:<id>:payload, {} when absent, {body} when set
    result,         \* Redis ticket:<id>:result, {} or {bundle}
    error,          \* Redis ticket:<id>:error, Nil or the message
    lookup,         \* NodeCache ticket-lookup:<ruc>:<user>:<key> -> ticket id
    cache,          \* NodeCache <ruc>:<targets> -> {} or {bundle}
    ticketRetries,  \* Map ticketId -> retries
    activeWorkers,  \* admission counter of processQueue
    browser,        \* TRUE once chromium.launch has set the shared handle
    lpopPending,    \* processQueue invocations awaiting redis.lpop
    workers,        \* the processQueue invocation that popped each ticket id
    nextId,         \* the next id uuidv4 returns
    created,        \* history: the body each ticket was created with
    answered,       \* history: the code create-ticket answered the call that
                    \* generated each id with, 0 while the id is not generated
    attempt,        \* one call of scraper.getSunatTokens, await by await
    chrome,         \* the browser processes and the callers of
                    \* resolveSunatTokens from part_002:105 on, await by await
    wsClients,      \* the Set wsClients: the sockets and their readyState
    sent            \* the ticket ids sent to each socket, in order

vars == << queue, payload, result, error, lookup, cache, ticketRetries,
           activeWorkers, browser, lpopPending, workers, nextId, created,
           answered, attempt, chrome, wsClients, sent >>

redisVars == << queue, payload, result, error >>
histVars == << created, answered >>
\* What no step of the ticket queue touches.
auxVars == << attempt, chrome, wsClients >>

\* ------------------------------------------------------------- resolver

\* areTargetsFulfilled, part_002:253-263
areTargetsFulfilled(res, targets) ==
    \A k \in 1 .. Len(targets) :
        IF targets[k] = "sire" THEN res.sire # NullToken
        ELSE IF targets[k] = "cpe" THEN res.cpe # NullToken
        ELSE IF targets[k] = "unified-platform" THEN res.unified_platform # NullToken
        ELSE FALSE

\* What the portal does during one attempt: whether browser.newPage works,
\* whether the legacy hunt gets through login and menus, whether each token
\* is found.
Envs == [page : BOOLEAN, legacy : BOOLEAN, sire : BOOLEAN, cpe : BOOLEAN,
         lts : BOOLEAN]

\* resolveLegacyTokens, scraper.ts:52-156 (null is EmptyBundle's two fields)
resolveLegacyTokens(p, env) ==
    IF ~env.legacy
    THEN [sire |-> NullToken, cpe |-> NullToken, ok |-> FALSE]
    ELSE [sire |-> IF "sire" \in Range(p.targets) /\ env.sire
                   THEN TokenOf(p) ELSE NullToken,
          cpe  |-> IF "cpe" \in Range(p.targets) /\ env.cpe
                   THEN TokenOf(p) ELSE NullToken,
          ok   |-> TRUE]

\* resolveLTSTokens, scraper.ts:158-212
resolveLTSTokens(p, env) ==
    IF env.lts THEN TokenOf(p) ELSE NullToken

\* scraper.getSunatTokens, scraper.ts:25-50; only called when env.page
getSunatTokens(p, env) ==
    LET wantLegacy == "cpe" \in Range(p.targets) \/ "sire" \in Range(p.targets)
        wantLts == "unified-platform" \in Range(p.targets)
        legacy == IF wantLegacy THEN resolveLegacyTokens(p, env)
                  ELSE [sire |-> NullToken, cpe |-> NullToken, ok |-> FALSE]
        ltsTok == IF wantLts THEN resolveLTSTokens(p, env) ELSE NullToken
    IN  [sire |-> legacy.sire, cpe |-> legacy.cpe, unified_platform |-> ltsTok]

\* browser.newPage() is called outside every try of the scraper: when it
\* rejects, getSunatTokens rejects.  No page is asked for when no target
\* is.
scraperThrows(p, env) == p.targets # << >> /\ ~env.page

\* The ways one call of scraper.getSunatTokens can end: it throws, or it
\* returns a bundle.
Attempts(p) ==
    { [threw |-> scraperThrows(p, env),
       bundle |-> IF scraperThrows(p, env) THEN EmptyBundle
                  ELSE getSunatTokens(p, env)] : env \in Envs }

\* cacheKey of resolveSunatTokens, part_002:95
cacheKey(p) == << p.ruc, p.targets >>
CacheKeys == { << r, tl >> : r \in Rucs, tl \in TargetLists }

\* Object.assign(result, retryResult), part_002:184: every own property of
\* the retry's bundle, null ones included, replaces the accumulated one.
objectAssign(acc, upd) ==
    [sire |-> upd.sire, cpe |-> upd.cpe, unified_platform |-> upd.unified_platform]

\* ---------------------------------------------------------------- state

\* A processQueue invocation holding a ticket: where it stands, its payload,
\* result and retries locals, and (history) the targets its first attempt
\* resolved and which of its calls of resolveSunatTokens, numbered from 1,
\* were answered from the cache.
IdleWorker == [pc |-> "idle", payload |-> NoBody, result |-> EmptyBundle,
               retries |-> 0, first |-> {}, hits |-> {}]

\* An invocation in sleep(800), part_002:245: it reads its locals no more.
Sleeping == [IdleWorker EXCEPT !.pc = "sleep"]

\* GetSunatLegacyResult; a null legacyTokens spreads to nothing in
\* scraper.ts:43-49, as this one does.
NoLegacy == [sire |-> NullToken, cpe |-> NullToken]

\* One call of scraper.getSunatTokens: where it stands, its payload, the
\* pages it holds open, the locals sireToken and cpeToken of hunt, what
\* the try of resolveLegacyTokens is about to return while its finally
\* runs (hunted), legacyTokens, the bundle returned, and (history) the
\* logins submitted, whether a title check failed, the families begun and
\* logins submitted after that, the targets a token was extracted for and
\* the targets whose resolution was begun; calls counts the calls made.
IdleAttempt ==
    [calls |-> 0, pc |-> "idle", payload |-> NoBody, pages |-> {}, sireToken |-> NullToken,
     cpeToken |-> NullToken, hunted |-> NoLegacy, legacyTokens |-> NoLegacy,
     bundle |-> EmptyBundle, logins |-> 0, checkFailed |-> FALSE,
     begunAfterFail |-> {}, loginsAfterFail |-> 0, extracted |-> {},
     attempted |-> {}]

\* The browsers chromium.launch has started, numbered in the order of
\* their launch.
Browsers == 1 .. MaxBrowsers
NoBrowser == 0

\* The invocations of processQueue that can be inside resolveSunatTokens
\* at the same time.
Callers == 1 .. MAX_CONCURRENT_WORKERS

\* A caller of resolveSunatTokens outside of it.
IdleCaller == [pc |-> "idle", uses |-> NoBrowser, reusedDead |-> FALSE]

\* The variable browser of part_002:81 (handle), the browser processes
\* that run (live), how many were launched, the callers, whether
\* onShutdown awaits browser.close(), and (history) how many periods of
\* the process's timer have elapsed in a row with a handle held and no
\* context open.
IdleChrome ==
    [handle |-> NoBrowser, live |-> {}, launched |-> 0,
     callers |-> [w \in Callers |-> IdleCaller], shutdown |-> "no",
     idlePeriods |-> 0]

Init ==
    /\ queue = <<>>
    /\ payload = [t \in TicketIds |-> {}]
    /\ result = [t \in TicketIds |-> {}]
    /\ error = [t \in TicketIds |-> Nil]
    /\ lookup = [c \in Credentials |-> NoTicket]
    /\ cache = [k \in CacheKeys |-> {}]
    /\ ticketRetries = [t \in {} |-> 0]
    /\ activeWorkers = 0
    /\ browser = FALSE
    /\ lpopPending = 0
    /\ workers = [t \in TicketIds |-> IdleWorker]
    /\ nextId = 1
    /\ created = [t \in TicketIds |-> NoBody]
    /\ answered = [t \in TicketIds |-> 0]
    /\ attempt = IdleAttempt
    /\ chrome = IdleChrome
    /\ wsClients = [c \in Sockets |-> "none"]
    /\ sent = [c \in Sockets |-> << >>]

\* ------------------------------------------------- processQueue, the worker

\* An admission check that lets one invocation too many through.
AdmitsOneMore == activeWorkers <= MAX_CONCURRENT_WORKERS

\* The admission check of part_002:139 lets the callback through.
Admits == activeWorkers < MAX_CONCURRENT_WORKERS

\* setInterval(processQueue, 1000): one callback, up to its first await,
\* part_002:139-149.
Tick ==
    IF ~Admits
    THEN UNCHANGED vars
    ELSE /\ activeWorkers' = activeWorkers + 1
         /\ lpopPending' = lpopPending + 1
         /\ UNCHANGED << redisVars, lookup, cache, ticketRetries, browser,
                         workers, nextId, histVars, auxVars, sent >>

\* A finally that leaves the counter as it is.
finallyKeepsSlot == activeWorkers

\* The finally of part_002:246-248.
finally == activeWorkers - 1

\* redis.lpop(QUEUE_KEY) answers, part_002:149-150.
Lpop ==
    /\ lpopPending > 0
    /\ lpopPending' = lpopPending - 1
    /\ IF queue = << >>
       THEN /\ activeWorkers' = finally
            /\ UNCHANGED << queue, workers >>
       ELSE /\ queue' = Tail(queue)
            /\ workers' = [workers EXCEPT ![Head(queue)].pc = "get"]
            /\ UNCHANGED activeWorkers
    /\ UNCHANGED << payload, result, error, lookup, cache, ticketRetries,
                    browser, nextId, histVars, auxVars, sent >>

\* The targets a bundle holds a token for.
Got(res) == { tg \in Targets :
                \/ tg = "sire" /\ res.sire # NullToken
                \/ tg = "cpe" /\ res.cpe # NullToken
                \/ tg = "unified-platform" /\ res.unified_platform # NullToken }

\* ticketRetries.set and ticketRetries.delete
retriesPut(t, n) ==
    [x \in (DOMAIN ticketRetries) \cup {t} |-> IF x = t THEN n ELSE ticketRetries[x]]
retriesDelete(t) ==
    [x \in (DOMAIN ticketRetries) \ {t} |-> ticketRetries[x]]

\* A while condition that allows one retry more.
MustRetryOnceMore(res, targets, retries) ==
    ~areTargetsFulfilled(res, targets) /\ retries <= MAX_RETRIES

\* The while condition of part_002:174.
MustRetry(res, targets, retries) ==
    ~areTargetsFulfilled(res, targets) /\ retries < MAX_RETRIES

\* A test that takes every bundle for a fulfilled one.
StoresAnyBundle(res, targets) == TRUE

\* The test of part_002:187 that chooses between the result and the error
\* record.
StoresResult(res, targets) == areTargetsFulfilled(res, targets)

\* notifyViaWs, part_002:142-146: the id is sent to every socket of
\* wsClients whose readyState is 1.
notifyViaWs(t) ==
    [c \in Sockets |-> IF wsClients[c] = "open" THEN Append(sent[c], t)
                       ELSE sent[c]]

\* part_002:172-212 from the point where the accumulated bundle is res:
\* either start one more attempt, or write the result or the error record
\* and go on to notifyViaWs and sleep(800).
Conclude(t, w, res) ==
    IF MustRetry(res, w.payload.targets, w.retries)
    THEN /\ workers' = [workers EXCEPT ![t] =
                           [w EXCEPT !.result = res, !.retries = w.retries + 1,
                                     !.pc = "retry"]]
         /\ ticketRetries' = retriesPut(t, w.retries + 1)
         /\ UNCHANGED << result, error, sent >>
    ELSE /\ workers' = [workers EXCEPT ![t] = Sleeping]
         /\ ticketRetries' = retriesDelete(t)
         /\ sent' = notifyViaWs(t)
         /\ IF StoresResult(res, w.payload.targets)
            THEN /\ result' = [result EXCEPT ![t] = {res}]
                 /\ UNCHANGED error
            ELSE /\ error' = [error EXCEPT ![t] = ERR_NOT_ALL]
                 /\ UNCHANGED result

\* What the catch of part_002:224 has caught, as text: err.stack or
\* err.message, part_002:227-230.
ErrStack == "Error: err.stack"

\* A catch that stores the text of what it caught.
errorOfCatchIsText(err) == err

\* The value the catch stores under <prefix>:error, part_002:235-240: a
\* fixed string, whatever was caught; the text goes to the log only.
errorOfCatch(err) == ERR_INTERNAL

\* The catch of part_002:224-243.
Caught(t) ==
    /\ workers' = [workers EXCEPT ![t] = Sleeping]
    /\ error' = [error EXCEPT ![t] = errorOfCatch(ErrStack)]
    /\ sent' = notifyViaWs(t)
    /\ UNCHANGED << result, ticketRetries >>

\* retries as first read at part_002:172
retriesOf(t) == IF t \in DOMAIN ticketRetries THEN ticketRetries[t] ELSE 0

\* A cache read that does not look at useCache.
cachedTokensAlways(useCache, key) == cache[key]

\* cachedTokens of part_002:97-103: the cache is read only when useCache.
cachedTokens(useCache, key) == IF useCache THEN cache[key] ELSE {}

\* redis.get(<prefix>:payload) answers, part_002:156-166: without a payload
\* the invocation is over; with one, resolveSunatTokens runs up to its
\* first await, so a cached bundle (part_002:97-103) is concluded on here.
GetPayload(t) ==
    /\ workers[t].pc = "get"
    /\ IF payload[t] = {}
       THEN /\ activeWorkers' = finally
            /\ workers' = [workers EXCEPT ![t] = IdleWorker]
            /\ UNCHANGED << result, error, ticketRetries, sent >>
       ELSE LET p == CHOOSE b \in payload[t] : TRUE
                w == [workers[t] EXCEPT !.payload = p, !.retries = retriesOf(t)]
                key == cacheKey(p)
            IN  /\ UNCHANGED activeWorkers
                /\ IF cachedTokens(TRUE, key) # {}
                   THEN LET res == CHOOSE b \in cachedTokens(TRUE, key) : TRUE
                        IN  Conclude(t, [w EXCEPT !.first = Got(res),
                                                  !.hits = {1}], res)
                   ELSE /\ workers' = [workers EXCEPT ![t] = [w EXCEPT !.pc = "resolve"]]
                        /\ UNCHANGED << result, error, ticketRetries, sent >>
    /\ UNCHANGED << queue, payload, lookup, cache, browser, lpopPending, nextId,
                    histVars, auxVars >>

\* scraper.getSunatTokens of the first attempt ends as a, part_002:118-135,
\* and the code runs on to its next await.
ResolveWith(t, a) ==
    /\ workers[t].pc = "resolve"
    /\ LET w == workers[t]
           key == cacheKey(w.payload)
       IN  /\ browser' = TRUE
           /\ IF a.threw
              THEN /\ Caught(t)
                   /\ UNCHANGED cache
              ELSE /\ cache' = [cache EXCEPT ![key] = {a.bundle}]
                   /\ Conclude(t, [w EXCEPT !.first = Got(a.bundle)], a.bundle)
    /\ UNCHANGED << queue, payload, lookup, activeWorkers, lpopPending, nextId,
                    histVars, auxVars >>

Resolve(t) == \E a \in Attempts(workers[t].payload) : ResolveWith(t, a)

\* resolveSunatTokens(payload, false) of part_002:182 ends as a.
RetryWith(t, a) ==
    /\ workers[t].pc = "retry"
    /\ LET w == workers[t]
           key == cacheKey(w.payload)
       IN  IF cachedTokens(FALSE, key) # {}
           THEN LET res == CHOOSE b \in cachedTokens(FALSE, key) : TRUE
                IN  /\ UNCHANGED << browser, cache >>
                    /\ Conclude(t, [w EXCEPT !.hits = @ \cup {w.retries + 1}],
                                objectAssign(w.result, res))
           ELSE /\ browser' = TRUE
                /\ IF a.threw
                   THEN /\ Caught(t)
                        /\ UNCHANGED cache
                   ELSE /\ cache' = [cache EXCEPT ![key] = {a.bundle}]
                        /\ Conclude(t, w, objectAssign(w.result, a.bundle))
    /\ UNCHANGED << queue, payload, lookup, activeWorkers, lpopPending, nextId,
                    histVars, auxVars >>

Retry(t) == \E a \in Attempts(workers[t].payload) : RetryWith(t, a)

\* sleep(800) is over: the finally releases the slot, part_002:245-248.
Release(t) ==
    /\ workers[t].pc = "sleep"
    /\ activeWorkers' = finally
    /\ workers' = [workers EXCEPT ![t] = IdleWorker]
    /\ UNCHANGED << redisVars, lookup, cache, ticketRetries, browser,
                    lpopPending, nextId, histVars, auxVars, sent >>

\* ------------------------------------------------------------ HTTP boundary
\* A handler is one step: what it answers is a function of the state it
\* finds and of the request.

\* A guard that lets every request through.
AuthorizedAnyKey(key) == TRUE

\* beforeHandle of part_002:312-325 lets the request through.
Authorized(key) == key # NoApiKey /\ key = APP_API_KEY

\* lookupKey of part_002:268 and 351.
lookupKey(b) == [ruc |-> b.ruc, sol_username |-> b.sol_username, sol_key |-> b.sol_key]

\* An id generator that hands the last id out again.
uuidRepeated == IF nextId > 1 THEN nextId - 1 ELSE nextId

\* The id create-ticket gives a new ticket: uuidv4(), part_002:340.
uuidv4 == nextId

\* A re-validation that does not look at the targets asked for.
RevalidatesAnyTargets(cachedTicketId, targets) == result[cachedTicketId] # {}

\* The re-validation of part_002:273-277: the looked-up ticket has a result
\* record that fulfils the targets asked for now.
Revalidates(cachedTicketId, targets) ==
    /\ result[cachedTicketId] # {}
    /\ areTargetsFulfilled(CHOOSE r \in result[cachedTicketId] : TRUE, targets)

\* findExistingTicket, part_002:265-281: the id it returns, NoTicket for null.
findExistingTicket(b) ==
    LET cachedTicketId == lookup[lookupKey(b)]
    IN  IF cachedTicketId # NoTicket /\ Revalidates(cachedTicketId, b.targets)
        THEN cachedTicketId
        ELSE NoTicket

\* A push at the head of the list.
lpush(list, id) == << id >> \o list

\* A push that leaves the id in the list twice.
rpushTwice(list, id) == list \o << id, id >>

\* rpush(QUEUE_KEY, ticketId) of part_002:348.
rpush(list, id) == Append(list, id)

\* A read of the lookup entry that removes it (NodeCache take).
cacheTake(k) == [lookup EXCEPT ![k] = NoTicket]

\* cache.get(lookupKey) of part_002:269: what it leaves in the cache; a get
\* neither removes the entry nor renews its ttl.
cacheGet(k) == lookup

\* What POST /create-ticket answers, part_002:312-354.
CreateTicketResponse(key, b) ==
    IF ~Authorized(key)
    THEN [code |-> 401, ticket_id |-> NoTicket, status |-> "Unauthorized"]
    ELSE IF findExistingTicket(b) # NoTicket
    THEN [code |-> 200, ticket_id |-> findExistingTicket(b), status |-> "reused"]
    ELSE [code |-> 200, ticket_id |-> uuidv4, status |-> "pending"]

\* POST /create-ticket, part_002:327-366: a reused or refused request
\* changes nothing; otherwise the MULTI (SET payload EX, RPUSH) and the
\* lookup entry.
CreateTicket(key, b) ==
    /\ CreateTicketResponse(key, b).status = "pending" => nextId <= MaxTickets
    /\ IF CreateTicketResponse(key, b).status = "Unauthorized"
       THEN UNCHANGED vars
       ELSE IF CreateTicketResponse(key, b).status = "reused"
       THEN /\ lookup' = cacheGet(lookupKey(b))
            /\ UNCHANGED << redisVars, cache, ticketRetries, activeWorkers,
                            browser, lpopPending, workers, nextId, histVars,
                            auxVars, sent >>
       ELSE /\ payload' = [payload EXCEPT ![uuidv4] = {b}]
            /\ queue' = rpush(queue, uuidv4)
            /\ lookup' = [lookup EXCEPT ![lookupKey(b)] = uuidv4]
            /\ created' = [created EXCEPT ![uuidv4] = b]
            /\ answered' = [answered EXCEPT ![uuidv4] = 200]
            /\ nextId' = nextId + 1
            /\ UNCHANGED << result, error, cache, ticketRetries, activeWorkers,
                            browser, lpopPending, workers, auxVars, sent >>

\* redis.exists(<prefix>:payload) of part_002:388.
payloadExists(t) == payload[t] # {}

\* A get-token that looks at the error and result records before the payload.
GetTokenRecordsFirst(key, t) ==
    IF ~Authorized(key)
    THEN [code |-> 401, status |-> "Unauthorized", message |-> Nil,
          sunat_token |-> EmptyBundle]
    ELSE IF error[t] # Nil
    THEN [code |-> 500, status |-> "error", message |-> error[t],
          sunat_token |-> EmptyBundle]
    ELSE IF result[t] # {}
    THEN [code |-> 200, status |-> "ok", message |-> Nil,
          sunat_token |-> CHOOSE r \in result[t] : TRUE]
    ELSE IF ~payloadExists(t)
    THEN [code |-> 404, status |-> "error", message |-> "ticket not found",
          sunat_token |-> EmptyBundle]
    ELSE [code |-> 200, status |-> "pending", message |-> Nil,
          sunat_token |-> EmptyBundle]

\* What GET /get-token answers, part_002:312-325 and 384-403.
GetTokenResponse(key, t) ==
    IF ~Authorized(key)
    THEN [code |-> 401, status |-> "Unauthorized", message |-> Nil,
          sunat_token |-> EmptyBundle]
    ELSE IF ~payloadExists(t)
    THEN [code |-> 404, status |-> "error", message |-> "ticket not found",
          sunat_token |-> EmptyBundle]
    ELSE IF error[t] # Nil
    THEN [code |-> 500, status |-> "error", message |-> error[t],
          sunat_token |-> EmptyBundle]
    ELSE IF result[t] # {}
    THEN [code |-> 200, status |-> "ok", message |-> Nil,
          sunat_token |-> CHOOSE r \in result[t] : TRUE]
    ELSE [code |-> 200, status |-> "pending", message |-> Nil,
          sunat_token |-> EmptyBundle]

\* GET /get-token, part_002:382-417: it reads and writes nothing.
GetToken(key, t) ==
    /\ GetTokenResponse(key, t).code \in {200, 401, 404, 500}
    /\ UNCHANGED vars

\* ---------------------------------------------------------------- expiry

\* EX PAYLOAD_TTL of part_002:347 runs out.
ExpirePayload(t) ==
    /\ payload[t] # {}
    /\ payload' = [payload EXCEPT ![t] = {}]
    /\ UNCHANGED << queue, result, error, lookup, cache, ticketRetries,
                    activeWorkers, browser, lpopPending, workers, nextId, histVars, auxVars, sent >>

\* EX RESULT_TTL of part_002:189-194 runs out.
ExpireResult(t) ==
    /\ result[t] # {}
    /\ result' = [result EXCEPT ![t] = {}]
    /\ UNCHANGED << queue, payload, error, lookup, cache, ticketRetries,
                    activeWorkers, browser, lpopPending, workers, nextId, histVars, auxVars, sent >>

\* EX RESULT_TTL of the error records runs out.
ExpireError(t) ==
    /\ error[t] # Nil
    /\ error' = [error EXCEPT ![t] = Nil]
    /\ UNCHANGED << queue, payload, result, lookup, cache, ticketRetries,
                    activeWorkers, browser, lpopPending, workers, nextId, histVars, auxVars, sent >>

\* The lookup entry's ttl of part_002:352 runs out: it was set after the
\* payload record with the same ttl, so the payload is gone by then.
ExpireLookup(c) ==
    /\ lookup[c] # NoTicket
    /\ payload[lookup[c]] = {}
    /\ lookup' = [lookup EXCEPT ![c] = NoTicket]
    /\ UNCHANGED << redisVars, cache, ticketRetries, activeWorkers, browser,
                    lpopPending, workers, nextId, histVars, auxVars, sent >>

\* stdTTL of the NodeCache, part_002:84, runs out for a result-cache entry.
ExpireCache(k) ==
    /\ cache[k] # {}
    /\ cache' = [cache EXCEPT ![k] = {}]
    /\ UNCHANGED << redisVars, lookup, ticketRetries, activeWorkers, browser,
                    lpopPending, workers, nextId, histVars, auxVars, sent >>

\* ----------------------------------------------------------- store faults
\* A Redis command that is rejected has had no effect on the store.

\* redis.get(<prefix>:payload) of part_002:156 rejects: the await is outside
\* the inner try, so only the finally runs and the rejection leaves
\* processQueue.
GetPayloadFails(t) ==
    /\ workers[t].pc = "get"
    /\ activeWorkers' = finally
    /\ workers' = [workers EXCEPT ![t] = IdleWorker]
    /\ UNCHANGED << redisVars, lookup, cache, ticketRetries, browser,
                    lpopPending, nextId, histVars, auxVars, sent >>

\* The bundle the invocation holds once its running attempt has returned
\* a.bundle.
held(t, a) ==
    IF workers[t].pc = "retry" THEN objectAssign(workers[t].result, a.bundle)
    ELSE a.bundle

\* The catch of part_002:224-243 when its own redis.set may reject: with
\* the write done the invocation goes on to sleep(800); with the write
\* rejected the rejection leaves processQueue through the finally.
CatchWith(t, written) ==
    IF written
    THEN /\ workers' = [workers EXCEPT ![t] = Sleeping]
         /\ error' = [error EXCEPT ![t] = errorOfCatch(ErrStack)]
         /\ sent' = notifyViaWs(t)
         /\ UNCHANGED activeWorkers
    ELSE /\ workers' = [workers EXCEPT ![t] = IdleWorker]
         /\ activeWorkers' = finally
         /\ UNCHANGED << error, sent >>

\* The attempt returns a bundle that ends the retry loop and the redis.set
\* of the result or error record (part_002:189, 200) rejects: the catch
\* takes over.
OutcomeWriteFails(t, written) ==
    /\ workers[t].pc \in {"resolve", "retry"}
    /\ \E a \in Attempts(workers[t].payload) :
          /\ ~a.threw
          /\ ~MustRetry(held(t, a), workers[t].payload.targets, workers[t].retries)
          /\ cache' = [cache EXCEPT ![cacheKey(workers[t].payload)] = {a.bundle}]
    /\ browser' = TRUE
    /\ ticketRetries' = retriesDelete(t)
    /\ CatchWith(t, written)
    /\ UNCHANGED << queue, payload, result, lookup, lpopPending, nextId,
                    histVars, auxVars >>

\* The attempt throws and the redis.set of the catch (part_002:235) rejects.
CatchWriteFails(t) ==
    /\ workers[t].pc \in {"resolve", "retry"}
    /\ \E a \in Attempts(workers[t].payload) : a.threw
    /\ browser' = TRUE
    /\ CatchWith(t, FALSE)
    /\ UNCHANGED << queue, payload, result, lookup, cache, ticketRetries,
                    lpopPending, nextId, histVars, auxVars >>

\* A rejected launch that leaves a handle in the variable.
launchRejectedKeepsHandle == TRUE

\* browser = await chromium.launch(...) of part_002:107 when the launch
\* rejects: the assignment does not take place.
launchRejected == browser

\* resolveSunatTokens finds no browser and chromium.launch rejects,
\* part_002:105-112: the catch of processQueue takes over.
LaunchFails(t) ==
    /\ workers[t].pc \in {"resolve", "retry"}
    /\ browser = FALSE
    /\ browser' = launchRejected
    /\ Caught(t)
    /\ UNCHANGED << queue, payload, lookup, cache, activeWorkers, lpopPending,
                    nextId, histVars, auxVars >>

\* An exec that rejects and has stored and pushed all the same.
execApplied(id, b) ==
    /\ payload' = [payload EXCEPT ![id] = {b}]
    /\ queue' = rpush(queue, id)

\* What the MULTI of part_002:345-349 leaves in the store when its exec
\* rejects.
execRejected(id, b) == UNCHANGED << payload, queue >>

\* The codes of the catch of part_002:355-365.
FailureCodes == {429, 500}

\* POST /create-ticket whose exec rejects, part_002:340-365: the id is
\* generated, the catch answers 429 or 500 and the lookup entry of
\* part_002:351-352 is not reached.
CreateTicketFails(key, b, code) ==
    /\ Authorized(key)
    /\ findExistingTicket(b) = NoTicket
    /\ nextId <= MaxTickets
    /\ execRejected(uuidv4, b)
    /\ answered' = [answered EXCEPT ![uuidv4] = code]
    /\ nextId' = nextId + 1
    /\ UNCHANGED << result, error, lookup, cache, ticketRetries, activeWorkers,
                    browser, lpopPending, workers, created, auxVars, sent >>

\* ------------------------------------------- scraper.getSunatTokens, by step

\* The payloads of the attempts of ScraperSpec.
ScraperBodies ==
    { Body("key1", tl) : tl \in { << >>, <<"sire">>, <<"cpe">>, <<"sire", "cpe">>,
                                  <<"unified-platform">>,
                                  <<"sire", "unified-platform">>,
                                  <<"sire", "cpe", "unified-platform">> } }

serverVars == << queue, payload, result, error, lookup, cache, ticketRetries,
                 activeWorkers, browser, lpopPending, workers, nextId,
                 created, answered, chrome, wsClients, sent >>

wants(p, target) == target \in Range(p.targets)
wantsLegacy(p) == wants(p, "cpe") \/ wants(p, "sire")

\* A close that leaves the page open.
closeNothing(pages, pg) == pages

\* page.close(): once it is called the page is open no more, whether the
\* promise resolves or rejects (it rejects when the page or the browser is
\* already gone).
closePage(pages, pg) == pages \ {pg}

\* scraper.ts:43-49
returnBundle(legacyTokens, ltsToken) ==
    [sire |-> legacyTokens.sire, cpe |-> legacyTokens.cpe,
     unified_platform |-> ltsToken]

\* The attempt returns its bundle.
Returned(a, ltsToken) ==
    [a EXCEPT !.pc = "returned",
              !.bundle = returnBundle(a.legacyTokens, ltsToken)]

\* scraper.ts:39-41 and 43: after the legacy family, the LTS family when
\* unified-platform is asked for, else the return.
AfterLegacy(a) ==
    IF wants(a.payload, "unified-platform")
    THEN [a EXCEPT !.pc = "ltsNewPage",
                   !.begunAfterFail = IF a.checkFailed THEN @ \cup {"lts"} ELSE @]
    ELSE Returned(a, NullToken)

\* scraper.getSunatTokens is called, scraper.ts:25-41.
StartAttempt(p) ==
    /\ attempt.pc = "idle"
    /\ attempt.calls < MaxAttempts
    /\ attempt' =
         LET called == [IdleAttempt EXCEPT !.calls = attempt.calls + 1,
                                           !.payload = p]
         IN  IF wantsLegacy(p) THEN [called EXCEPT !.pc = "legacyNewPage"]
             ELSE AfterLegacy(called)
    /\ UNCHANGED serverVars

\* browser.newPage() of resolveLegacyTokens, scraper.ts:58, outside the try.
LegacyNewPage(ok) ==
    /\ attempt.pc = "legacyNewPage"
    /\ attempt' = IF ok
                  THEN [attempt EXCEPT !.pc = "legacyLogin",
                                       !.pages = @ \cup {"legacy"}]
                  ELSE [attempt EXCEPT !.pc = "threw"]
    /\ UNCHANGED serverVars

\* hunt throws: the catch of scraper.ts:146-151 returns null, the finally
\* runs next.
HuntThrows(a) == [a EXCEPT !.pc = "legacyFinally", !.hunted = NoLegacy]

\* hunt returns { sire: sireToken, cpe: cpeToken }, scraper.ts:141.
HuntReturns(a) ==
    [a EXCEPT !.pc = "legacyFinally",
              !.hunted = [sire |-> a.sireToken, cpe |-> a.cpeToken]]

\* page.goto and handleLogin, scraper.ts:63-71: the login is submitted by
\* the last click of handleLogin.
LegacyLogin(ok) ==
    /\ attempt.pc = "legacyLogin"
    /\ attempt' = IF ok
                  THEN [attempt EXCEPT !.pc = "legacyTitle", !.logins = @ + 1]
                  ELSE HuntThrows(attempt)
    /\ UNCHANGED serverVars

TitleOutcomes == {"menu", "other", "throw"}

\* The title check and mitigateRedundantMenuItems, scraper.ts:73-79, then
\* the branch of scraper.ts:103.
LegacyTitle(outcome) ==
    /\ attempt.pc = "legacyTitle"
    /\ attempt' =
         IF outcome = "menu"
         THEN IF wants(attempt.payload, "sire")
              THEN [attempt EXCEPT !.pc = "legacySire",
                                   !.attempted = @ \cup {"sire"}]
              ELSE [attempt EXCEPT !.pc = "legacyGoBack"]
         ELSE IF outcome = "other"
         THEN [HuntThrows(attempt) EXCEPT !.checkFailed = TRUE]
         ELSE HuntThrows(attempt)
    /\ UNCHANGED serverVars

TokenOutcomes == {"token", "null", "throw"}

\* goToSireMenu and resolveToken in their try, scraper.ts:103-119.
LegacySire(outcome) ==
    /\ attempt.pc = "legacySire"
    /\ attempt' =
         IF outcome = "token"
         THEN [attempt EXCEPT !.pc = "legacyGoBack",
                              !.sireToken = TokenOf(attempt.payload),
                              !.extracted = @ \cup {"sire"}]
         ELSE [attempt EXCEPT !.pc = "legacyGoBack"]
    /\ UNCHANGED serverVars

\* await goBack(), scraper.ts:121, under no try of hunt, then the branch
\* of scraper.ts:123.
LegacyGoBack(ok) ==
    /\ attempt.pc = "legacyGoBack"
    /\ attempt' =
         IF ~ok THEN HuntThrows(attempt)
         ELSE IF wants(attempt.payload, "cpe")
         THEN [attempt EXCEPT !.pc = "legacyCpe", !.attempted = @ \cup {"cpe"}]
         ELSE HuntReturns(attempt)
    /\ UNCHANGED serverVars

\* goToCpeMenu and resolveToken in their try, scraper.ts:123-141.
LegacyCpe(outcome) ==
    /\ attempt.pc = "legacyCpe"
    /\ attempt' =
         IF outcome = "token"
         THEN HuntReturns([attempt EXCEPT !.cpeToken = TokenOf(attempt.payload),
                                          !.extracted = @ \cup {"cpe"}])
         ELSE HuntReturns(attempt)
    /\ UNCHANGED serverVars

\* The finally of resolveLegacyTokens, scraper.ts:152-155: when page.close()
\* rejects, the rejection replaces the value being returned.
LegacyFinally(ok) ==
    /\ attempt.pc = "legacyFinally"
    /\ attempt' =
         LET closed == [attempt EXCEPT !.pages = closePage(@, "legacy")]
         IN  IF ok
             THEN AfterLegacy([closed EXCEPT !.legacyTokens = attempt.hunted])
             ELSE [closed EXCEPT !.pc = "threw"]
    /\ UNCHANGED serverVars

\* browser.newPage() of resolveLTSTokens, scraper.ts:164, outside the try.
LtsNewPage(ok) ==
    /\ attempt.pc = "ltsNewPage"
    /\ attempt' = IF ok
                  THEN [attempt EXCEPT !.pc = "ltsLogin",
                                       !.pages = @ \cup {"lts"}]
                  ELSE [attempt EXCEPT !.pc = "threw"]
    /\ UNCHANGED serverVars

\* page.goto, waitForLoadState and handleLogin, scraper.ts:169-179.
LtsLogin(ok) ==
    /\ attempt.pc = "ltsLogin"
    /\ attempt' =
         IF ok
         THEN [attempt EXCEPT !.pc = "ltsTitle", !.logins = @ + 1,
                              !.loginsAfterFail =
                                  IF attempt.checkFailed THEN @ + 1 ELSE @]
         ELSE [attempt EXCEPT !.pc = "ltsCatch"]
    /\ UNCHANGED serverVars

\* The title check, waitForSelector and page.content, scraper.ts:181-188.
LtsTitle(outcome) ==
    /\ attempt.pc = "ltsTitle"
    /\ attempt' =
         IF outcome = "menu"
         THEN [attempt EXCEPT !.pc = "ltsClose",
                              !.attempted = @ \cup {"unified-platform"}]
         ELSE IF outcome = "other"
         THEN [attempt EXCEPT !.pc = "ltsCatch", !.checkFailed = TRUE]
         ELSE [attempt EXCEPT !.pc = "ltsCatch"]
    /\ UNCHANGED serverVars

\* page.close() inside huntToken and the match, scraper.ts:189-198.
LtsClose(ok, found) ==
    /\ attempt.pc = "ltsClose"
    /\ attempt' =
         LET closed == [attempt EXCEPT !.pages = closePage(@, "lts")]
         IN  IF ~ok THEN [closed EXCEPT !.pc = "ltsCatch"]
             ELSE IF found
             THEN Returned([closed EXCEPT !.extracted = @ \cup {"unified-platform"}],
                           TokenOf(attempt.payload))
             ELSE Returned(closed, NullToken)
    /\ UNCHANGED serverVars

\* The catch of resolveLTSTokens, scraper.ts:203-211: page.close() under no
\* try.
LtsCatch(ok) ==
    /\ attempt.pc = "ltsCatch"
    /\ attempt' =
         LET closed == [attempt EXCEPT !.pages = closePage(@, "lts")]
         IN  IF ok THEN Returned(closed, NullToken)
             ELSE [closed EXCEPT !.pc = "threw"]
    /\ UNCHANGED serverVars

\* The caller takes the outcome, part_002:118; the next call starts afresh.
TakeOutcome ==
    /\ attempt.pc \in {"returned", "threw"}
    /\ attempt' = [IdleAttempt EXCEPT !.calls = attempt.calls]
    /\ UNCHANGED serverVars

NextScraper ==
    \/ \E p \in ScraperBodies : StartAttempt(p)
    \/ \E ok \in BOOLEAN : LegacyNewPage(ok)
    \/ \E ok \in BOOLEAN : LegacyLogin(ok)
    \/ \E outcome \in TitleOutcomes : LegacyTitle(outcome)
    \/ \E outcome \in TokenOutcomes : LegacySire(outcome)
    \/ \E ok \in BOOLEAN : LegacyGoBack(ok)
    \/ \E outcome \in TokenOutcomes : LegacyCpe(outcome)
    \/ \E ok \in BOOLEAN : LegacyFinally(ok)
    \/ \E ok \in BOOLEAN : LtsNewPage(ok)
    \/ \E ok \in BOOLEAN : LtsLogin(ok)
    \/ \E outcome \in TitleOutcomes : LtsTitle(outcome)
    \/ \E ok, found \in BOOLEAN : LtsClose(ok, found)
    \/ \E ok \in BOOLEAN : LtsCatch(ok)
    \/ TakeOutcome

ScraperSpec == Init /\ [][NextScraper]_vars

\* ---------------------------------------------------- /ws, part_002:418-427

\* What the handlers of /ws leave alone.
nonWsVars == << queue, payload, result, error, lookup, cache, ticketRetries,
                activeWorkers, browser, lpopPending, workers, nextId,
                created, answered, attempt, chrome >>

\* open(ws), part_002:419-421: a new connection, nothing sent on it yet.
WsOpen(c) ==
    /\ wsClients[c] = "none"
    /\ wsClients' = [wsClients EXCEPT ![c] = "open"]
    /\ sent' = [sent EXCEPT ![c] = << >>]
    /\ UNCHANGED nonWsVars

\* The connection starts to close: its readyState is 1 no more, the close
\* handler has not run.
WsClosing(c) ==
    /\ wsClients[c] = "open"
    /\ wsClients' = [wsClients EXCEPT ![c] = "closing"]
    /\ UNCHANGED << nonWsVars, sent >>

\* close(ws), part_002:422-424.
WsClose(c) ==
    /\ wsClients[c] \in {"open", "closing"}
    /\ wsClients' = [wsClients EXCEPT ![c] = "none"]
    /\ UNCHANGED << nonWsVars, sent >>

\* ------------------------------------- the shared browser, part_002:105-118

\* What the steps of the browser's callers leave alone.
ticketVars == << queue, payload, result, error, lookup, cache, ticketRetries,
                 activeWorkers, browser, lpopPending, workers, nextId,
                 created, answered, attempt, wsClients, sent >>

\* browser.contexts().length of the browser b: browser.newPage() opens a
\* context of its own for the page, so one per caller scraping with b.
contexts(b) ==
    Cardinality({ w \in Callers : /\ chrome.callers[w].pc = "scraping"
                                  /\ chrome.callers[w].uses = b })

\* !browser of part_002:105: the variable is undefined.
handleIsUndefined == chrome.handle = NoBrowser

\* resolveSunatTokens after the cache, part_002:105-118, up to its next
\* await: chromium.launch when the variable is undefined, else the scraper
\* with the browser the variable holds.
Acquire(w) ==
    /\ chrome.shutdown # "down"
    /\ chrome.callers[w].pc = "idle"
    /\ chrome' =
         IF handleIsUndefined
         THEN [chrome EXCEPT !.callers[w].pc = "launching"]
         ELSE [chrome EXCEPT !.callers[w] =
                  [pc |-> "scraping", uses |-> chrome.handle,
                   reusedDead |-> chrome.handle \notin chrome.live]]
    /\ UNCHANGED ticketVars

\* chromium.launch of part_002:107 resolves and the variable is assigned,
\* or it rejects and resolveSunatTokens throws with the variable as it was.
Launch(w, ok) ==
    /\ chrome.shutdown # "down"
    /\ chrome.callers[w].pc = "launching"
    /\ ok => chrome.launched < MaxBrowsers
    /\ chrome' =
         IF ok
         THEN LET b == chrome.launched + 1
              IN  [chrome EXCEPT !.launched = b, !.live = @ \cup {b},
                                 !.handle = b,
                                 !.callers[w] = [pc |-> "scraping", uses |-> b,
                                                 reusedDead |-> FALSE]]
         ELSE [chrome EXCEPT !.callers[w] = IdleCaller]
    /\ UNCHANGED ticketVars

\* scraper.getSunatTokens has ended, part_002:118-135.
Scraped(w) ==
    /\ chrome.callers[w].pc = "scraping"
    /\ chrome' = [chrome EXCEPT !.callers[w] = IdleCaller]
    /\ UNCHANGED ticketVars

\* A browser process ends on its own (it crashes or is killed); nothing in
\* the server listens for it.
Crash(b) ==
    /\ b \in chrome.live
    /\ chrome' = [chrome EXCEPT !.live = @ \ {b}]
    /\ UNCHANGED ticketVars

\* onShutdown, part_002:432-438, up to its await: browser.close().
ShutdownClose ==
    /\ chrome.shutdown = "no"
    /\ chrome' = IF chrome.handle # NoBrowser
                 THEN [chrome EXCEPT !.shutdown = "closing",
                                     !.live = @ \ {chrome.handle}]
                 ELSE [chrome EXCEPT !.shutdown = "down"]
    /\ UNCHANGED ticketVars

\* onShutdown after its await, part_002:436: browser = undefined; the
\* process ends.
ShutdownDiscard ==
    /\ chrome.shutdown = "closing"
    /\ chrome' = [chrome EXCEPT !.shutdown = "down", !.handle = NoBrowser]
    /\ UNCHANGED ticketVars

\* One period of the process's only timer, setInterval(processQueue, 1000)
\* of part_002:251, has elapsed: processQueue reads and writes the variable
\* browser nowhere but in resolveSunatTokens.
Period ==
    /\ chrome.shutdown # "down"
    /\ chrome' = [chrome EXCEPT !.idlePeriods =
                     IF chrome.handle # NoBrowser /\ contexts(chrome.handle) = 0
                     THEN IF @ < MaxPeriods THEN @ + 1 ELSE @
                     ELSE 0]
    /\ UNCHANGED ticketVars

NextBrowser ==
    \/ \E w \in Callers : Acquire(w)
    \/ \E w \in Callers : \E ok \in BOOLEAN : Launch(w, ok)
    \/ \E w \in Callers : Scraped(w)
    \/ \E b \in Browsers : Crash(b)
    \/ ShutdownClose
    \/ ShutdownDiscard
    \/ Period

BrowserSpec == Init /\ [][NextBrowser]_vars

\* ----------------------------------------------------------- specification

\* The steps of the processQueue invocations.
Worker ==
    \/ Tick
    \/ Lpop
    \/ \E t \in TicketIds : GetPayload(t)
    \/ \E t \in TicketIds : Resolve(t)
    \/ \E t \in TicketIds : Retry(t)
    \/ \E t \in TicketIds : Release(t)

\* The requests of the clients.
Http ==
    \/ \E key \in ApiKeys, b \in Bodies : CreateTicket(key, b)
    \/ \E key \in ApiKeys, t \in TicketIds : GetToken(key, t)

\* In the behaviours of Spec the payload, result and lookup TTLs run out;
\* the error records and the result-cache entries stay.  SpecLong has every
\* TTL.
Next ==
    \/ Worker
    \/ Http
    \/ \E t \in TicketIds : ExpirePayload(t)
    \/ \E t \in TicketIds : ExpireResult(t)
    \/ \E c \in Credentials : ExpireLookup(c)

Spec == Init /\ [][Next]_vars

NextLong ==
    \/ Next
    \/ \E t \in TicketIds : ExpireError(t)
    \/ \E k \in CacheKeys : ExpireCache(k)

SpecLong == Init /\ [][NextLong]_vars

\* The ticker keeps firing, every store command is answered, every resolver
\* call returns or throws, sleep(800) ends.
Fairness ==
    /\ WF_vars(Tick)
    /\ WF_vars(Lpop)
    /\ \A t \in TicketIds :
          WF_vars(GetPayload(t) \/ Resolve(t) \/ Retry(t) \/ Release(t))

\* The bodies sent in the behaviours of LiveSpec.
LiveBodies == { Body("key1", << "sire" >>) }

\* The worker under fair scheduling, with authorized create-ticket requests
\* and payloads that may run out.
NextLive ==
    \/ Worker
    \/ \E b \in LiveBodies : CreateTicket(APP_API_KEY, b)
    \/ \E t \in TicketIds : ExpirePayload(t)

LiveSpec == Init /\ [][NextLive]_vars /\ Fairness

\* The body schema of part_002:368-379: targets is an array of the three
\* literals, of any length (the lengths of the three strings are those of
\* Body).
Validates(b) == \A k \in 1 .. Len(b.targets) : b.targets[k] \in Targets

\* The bodies sent in the behaviours of SchemaSpec: those of three
\* candidates that pass the validation.
SchemaBodies ==
    { b \in { Body("key1", << >>), Body("key1", << "sire" >>),
              Body("key1", << "sire", "other" >>) } : Validates(b) }

\* The server with the bodies at the edge of the schema.
NextSchema ==
    \/ Worker
    \/ \E b \in SchemaBodies : CreateTicket(APP_API_KEY, b)
    \/ \E t \in TicketIds : ExpirePayload(t)
    \/ \E t \in TicketIds : ExpireResult(t)

SchemaSpec == Init /\ [][NextSchema]_vars

\* The bodies sent in the behaviours of FaultSpec.
FaultBodies == { Body("key1", << "sire" >>), Body("key1", << "sire", "cpe" >>) }

\* The server with a store whose commands may be rejected.
NextFault ==
    \/ Worker
    \/ \E b \in FaultBodies : CreateTicket(APP_API_KEY, b)
    \/ \E b \in FaultBodies, code \in FailureCodes :
          CreateTicketFails(APP_API_KEY, b, code)
    \/ \E t \in TicketIds : GetPayloadFails(t)
    \/ \E t \in TicketIds, written \in BOOLEAN : OutcomeWriteFails(t, written)
    \/ \E t \in TicketIds : CatchWriteFails(t)
    \/ \E t \in TicketIds : ExpirePayload(t)

FaultSpec == Init /\ [][NextFault]_vars

\* The server with subscribers on /ws.
NextWs ==
    \/ Worker
    \/ \E b \in LiveBodies : CreateTicket(APP_API_KEY, b)
    \/ \E c \in Sockets : WsOpen(c)
    \/ \E c \in Sockets : WsClosing(c)
    \/ \E c \in Sockets : WsClose(c)
    \/ \E t \in TicketIds : ExpireResult(t)

WsSpec == Init /\ [][NextWs]_vars

\* The server when chromium.launch may reject.
NextLaunch ==
    \/ Worker
    \/ \E b \in FaultBodies : CreateTicket(APP_API_KEY, b)
    \/ \E t \in TicketIds : LaunchFails(t)
    \/ \E t \in TicketIds : ExpirePayload(t)

LaunchSpec == Init /\ [][NextLaunch]_vars

\* client.send(ticketId) of part_002:144 throws in the notifyViaWs that
\* follows the write of the result or error record (part_002:197, 211):
\* the call is inside the inner try, so the catch of part_002:224-243
\* writes 'internal server error' and notifies once more.  When that send
\* throws as well (again), the exception leaves processQueue through the
\* finally and sleep(800) is skipped.
SendThrows(t, again) ==
    /\ workers[t].pc \in {"resolve", "retry"}
    /\ \E c \in Sockets : wsClients[c] = "open"
    /\ \E a \in Attempts(workers[t].payload) :
          /\ ~a.threw
          /\ ~MustRetry(held(t, a), workers[t].payload.targets, workers[t].retries)
          /\ cache' = [cache EXCEPT ![cacheKey(workers[t].payload)] = {a.bundle}]
          /\ IF StoresResult(held(t, a), workers[t].payload.targets)
             THEN result' = [result EXCEPT ![t] = {held(t, a)}]
             ELSE UNCHANGED result
    /\ error' = [error EXCEPT ![t] = errorOfCatch(ErrStack)]
    /\ browser' = TRUE
    /\ ticketRetries' = retriesDelete(t)
    /\ IF again
       THEN /\ workers' = [workers EXCEPT ![t] = IdleWorker]
            /\ activeWorkers' = finally
            /\ UNCHANGED sent
       ELSE /\ workers' = [workers EXCEPT ![t] = Sleeping]
            /\ sent' = notifyViaWs(t)
            /\ UNCHANGED activeWorkers
    /\ UNCHANGED << queue, payload, lookup, lpopPending, nextId, histVars,
                    auxVars >>

\* The server with subscribers on /ws whose send may throw.
NextSend ==
    \/ Worker
    \/ \E b \in LiveBodies : CreateTicket(APP_API_KEY, b)
    \/ \E c \in Sockets : WsOpen(c)
    \/ \E c \in Sockets : WsClose(c)
    \/ \E t \in TicketIds, again \in BOOLEAN : SendThrows(t, again)

SendSpec == Init /\ [][NextSend]_vars

\* The server with subscribers on /ws and payload records that expire
\* before their ticket is dequeued.
NextAbandon ==
    \/ Worker
    \/ \E b \in LiveBodies : CreateTicket(APP_API_KEY, b)
    \/ \E c \in Sockets : WsOpen(c)
    \/ \E t \in TicketIds : ExpirePayload(t)

AbandonSpec == Init /\ [][NextAbandon]_vars

\* ------------------------------------------------------------------ claims

\* processQueue invocations that passed the admission check and have not
\* released their slot, counted from where the invocations stand.
InFlight ==
    lpopPending + Cardinality({ t \in TicketIds : workers[t].pc # "idle" })

\* C1: at every moment the number of processQueue invocations that passed
\* the admission check and have not yet released their slot is at most
\* MAX_CONCURRENT_WORKERS.
C1_BoundedConcurrency == InFlight <= MAX_CONCURRENT_WORKERS

\* All slots are taken, a ticket is being resolved and another one waits in
\* the queue.
C1_Witness ==
    /\ InFlight = MAX_CONCURRENT_WORKERS
    /\ \E t \in TicketIds : workers[t].pc \in {"resolve", "retry"}
    /\ queue # << >>

\* The bundle of a result record.
bundleOf(t) == CHOOSE r \in result[t] : TRUE

\* C2: a ticket has a result record only if the stored bundle holds a
\* non-null token for every target of the ticket's payload, and get-token
\* answers ok only with such a bundle.
C2_OnlyFulfilledStored ==
    \A t \in TicketIds :
        /\ result[t] # {} => areTargetsFulfilled(bundleOf(t), created[t].targets)
        /\ GetTokenResponse(APP_API_KEY, t).status = "ok" =>
               areTargetsFulfilled(GetTokenResponse(APP_API_KEY, t).sunat_token,
                                   created[t].targets)

\* get-token answers ok for a ticket of two targets, while another ticket
\* ended with the error record for a bundle that missed a target.
C2_Witness ==
    \E t, u \in TicketIds :
        /\ Len(created[t].targets) = 2
        /\ GetTokenResponse(APP_API_KEY, t).status = "ok"
        /\ error[u] = ERR_NOT_ALL

\* C10: get-token answers 404 whenever the payload record of the ticket is
\* absent, whatever result or error record exists for the id and whether or
\* not the id is still in the queue.
C10_NotFoundWithoutPayload ==
    \A t \in TicketIds :
        ~payloadExists(t) =>
            /\ GetTokenResponse(APP_API_KEY, t).code = 404
            /\ GetTokenResponse(APP_API_KEY, t).message = "ticket not found"

\* One ticket has lost its payload and kept its result record, another has
\* lost its payload while still in the queue.
C10_Witness ==
    \E t, u \in TicketIds :
        /\ ~payloadExists(t) /\ result[t] # {}
        /\ ~payloadExists(u) /\ u \in Range(queue)

\* The bundle an invocation holds once its retry has ended as a.
heldAfter(t, a) == objectAssign(workers[t].result, a.bundle)

\* C3 (as stated): when an invocation ends without an exception on a retry
\* that resolved a requested target the first attempt had missed, the first
\* attempt having resolved another one, the ticket has a result record with
\* a token for every requested target, and no error record.
C3_RetryCompletesBundle ==
    [][ \A t \in TicketIds :
            (workers[t].pc = "retry" /\ workers[t].first # {}) =>
                \A a \in Attempts(workers[t].payload) :
                    ( /\ ~a.threw
                      /\ Got(a.bundle) \ workers[t].first # {}
                      /\ workers'[t].pc = "sleep"
                      /\ RetryWith(t, a) )
                    => ( /\ result'[t] # {}
                         /\ Got(CHOOSE r \in result'[t] : TRUE)
                               = Range(created[t].targets)
                         /\ error'[t] = Nil ) ]_vars

\* C4: when the third retry returns and the bundle then held still misses
\* a requested target, the step writes the error record 'not all requested
\* targets could be resolved' and no result record, and get-token answers
\* 500 with that message while the payload is there.
C4_ExhaustedRetriesFail ==
    [][ \A t \in TicketIds :
            (workers[t].pc = "retry" /\ workers[t].retries = MAX_RETRIES) =>
                \A a \in Attempts(workers[t].payload) :
                    ( /\ ~a.threw
                      /\ ~areTargetsFulfilled(heldAfter(t, a), created[t].targets)
                      /\ RetryWith(t, a) )
                    => ( /\ error'[t] = "not all requested targets could be resolved"
                         /\ result'[t] = {}
                         /\ workers'[t].pc = "sleep"
                         /\ payloadExists(t) =>
                               /\ GetTokenResponse(APP_API_KEY, t)'.code = 500
                               /\ GetTokenResponse(APP_API_KEY, t)'.message
                                     = error'[t] ) ]_vars

\* A ticket of two targets has the error record and no result record after
\* its invocation went through all retries; get-token answers 500.
C4_Witness ==
    \E t \in TicketIds :
        /\ Len(created[t].targets) = 2
        /\ error[t] = ERR_NOT_ALL /\ result[t] = {}
        /\ workers[t].pc = "sleep"
        /\ t \notin DOMAIN ticketRetries
        /\ GetTokenResponse(APP_API_KEY, t).code = 500

\* C5: the get-token that follows a create-ticket answering pending with
\* id T answers pending for T; and as long as the payload of a ticket stays
\* it is only its TTL that removes it, and get-token answers pending, ok or
\* error, never 404.
C5_CreatedTicketIsFound ==
    [][ /\ \A b \in Bodies : \A T \in TicketIds :
              ( /\ nextId' # nextId
                /\ CreateTicketResponse(APP_API_KEY, b).status = "pending"
                /\ CreateTicketResponse(APP_API_KEY, b).ticket_id = T
                /\ CreateTicket(APP_API_KEY, b) )
              => ( /\ GetTokenResponse(APP_API_KEY, T)'.code = 200
                   /\ GetTokenResponse(APP_API_KEY, T)'.status = "pending" )
        /\ \A t \in TicketIds :
              payloadExists(t) =>
                 \/ /\ payloadExists(t)'
                    /\ GetTokenResponse(APP_API_KEY, t)'.code # 404
                    /\ GetTokenResponse(APP_API_KEY, t)'.status
                          \in {"pending", "ok", "error"}
                 \/ ExpirePayload(t) ]_vars

\* Both tickets were created and have their payload; get-token answers
\* pending for one, and error for the other.
C5_Witness ==
    /\ nextId > MaxTickets
    /\ \E t, u \in TicketIds :
          /\ payloadExists(t) /\ GetTokenResponse(APP_API_KEY, t).status = "pending"
          /\ payloadExists(u) /\ GetTokenResponse(APP_API_KEY, u).code = 500

\* The invocation that popped t has read the payload record and found none,
\* or a result or error record has been written for t.
Settled(t) ==
    \/ result[t] # {}
    \/ error[t] # Nil
    \/ workers[t].pc = "get" /\ ~payloadExists(t)

FulfilledFor(b) ==
    { t \in TicketIds :
        /\ result[t] # {}
        /\ lookupKey(created[t]) = lookupKey(b)
        /\ Range(b.targets) \subseteq Range(created[t].targets) }

\* C7 (as stated): whenever some ticket for the credentials of a request has
\* a result record and was fulfilled for a superset of the request's
\* targets, create-ticket answers reused with the id of such a ticket.
C7_SubsetIsReused ==
    \A b \in Bodies :
        FulfilledFor(b) # {} =>
            /\ CreateTicketResponse(APP_API_KEY, b).status = "reused"
            /\ CreateTicketResponse(APP_API_KEY, b).ticket_id \in FulfilledFor(b)

\* The credentials of b are known and the result record of the looked-up
\* ticket lacks a token for a target b asks for.
LooksUpNarrower(b) ==
    LET T == lookup[lookupKey(b)]
    IN  /\ T # NoTicket
        /\ result[T] # {}
        /\ ~areTargetsFulfilled(bundleOf(T), b.targets)

\* The ids create-ticket has given out.
GivenIds == { t \in TicketIds : created[t] # NoBody }

\* C8: a create-ticket whose credentials are known, the looked-up ticket
\* having a result record that lacks a token for a target asked for, answers
\* pending with an id never given before (so not the looked-up one), and
\* the step stores the payload under that id and appends the id to the
\* queue.
C8_BroaderRequestIsNew ==
    /\ [](\A b \in Bodies :
            LooksUpNarrower(b) =>
                /\ CreateTicketResponse(APP_API_KEY, b).status = "pending"
                /\ CreateTicketResponse(APP_API_KEY, b).ticket_id
                      # lookup[lookupKey(b)]
                /\ CreateTicketResponse(APP_API_KEY, b).ticket_id \notin GivenIds)
    /\ [][ \A b \in Bodies : \A T \in TicketIds :
              ( /\ LooksUpNarrower(b)
                /\ CreateTicketResponse(APP_API_KEY, b).ticket_id = T
                /\ CreateTicket(APP_API_KEY, b) )
              => ( /\ payload'[T] = {b}
                   /\ queue' = Append(queue, T) ) ]_vars

\* A ticket fulfilled for sire alone, and a second ticket of the same
\* credentials for sire and cpe in the queue with its payload, the lookup
\* entry naming the second.
C8_Witness ==
    \E t, u \in TicketIds :
        /\ t < u
        /\ lookupKey(created[t]) = lookupKey(created[u])
        /\ created[t].targets = << "sire" >> /\ result[t] # {}
        /\ created[u].targets = << "sire", "cpe" >>
        /\ payload[u] = {created[u]}
        /\ queue = << u >>
        /\ lookup[lookupKey(created[u])] = u

\* Ticket t is queued or in progress and has no terminal record.
InFlightTicket(t) ==
    /\ payloadExists(t)
    /\ t \in Range(queue) \/ workers[t].pc \in {"get", "resolve", "retry"}
    /\ result[t] = {} /\ error[t] = Nil

\* C9 (as stated): create-ticket with a payload equal to that of a ticket
\* that is queued or in progress answers with the id of that ticket.
C9_InFlightIsReturned ==
    \A t \in TicketIds :
        InFlightTicket(t) =>
            CreateTicketResponse(APP_API_KEY, created[t]).ticket_id = t

\* Ticket u was enqueued before ticket t: create-ticket gives the ids out in
\* the order of its pushes.
EnqueuedBefore(u, t) == created[u] # NoBody /\ created[t] # NoBody /\ u < t

\* C11: the queue holds the ids in the order they were enqueued, and the id
\* a step takes out of it is the one at its head: nothing enqueued before
\* it is still waiting.
C11_DequeuedInEnqueueOrder ==
    /\ [](\A i, j \in 1 .. Len(queue) :
            i < j => EnqueuedBefore(queue[i], queue[j]))
    /\ [][ \A t \in TicketIds :
              (t \in Range(queue) /\ t \notin Range(queue'))
              => ( /\ t = Head(queue)
                   /\ workers'[t].pc = "get"
                   /\ \A u \in TicketIds :
                         EnqueuedBefore(u, t) => u \notin Range(queue) ) ]_vars

\* The first ticket has been popped and is in work while the second one,
\* enqueued after it, waits in the queue.
C11_Witness ==
    /\ workers[1].pc \in {"get", "resolve", "retry"}
    /\ created[2] # NoBody
    /\ queue = << 2 >>

\* Ticket t was created and popped, no invocation holds it, it has no
\* result or error record and its payload is still there.
Abandoned(t) ==
    /\ created[t] # NoBody /\ t \notin Range(queue)
    /\ workers[t].pc = "idle"
    /\ result[t] = {} /\ error[t] = Nil
    /\ payloadExists(t)

\* C12: an id is in the queue at most once, and only while it was never
\* popped (no invocation holds it, no record exists for it); an id enters
\* the queue only in the create-ticket step that generates it; and a ticket
\* whose invocation ended without a record is answered pending by get-token
\* and stays that way until its payload expires.
C12_AtMostOnce ==
    /\ [](/\ \A i, j \in 1 .. Len(queue) : i # j => queue[i] # queue[j]
          /\ \A t \in Range(queue) :
                /\ created[t] # NoBody
                /\ workers[t].pc = "idle"
                /\ result[t] = {} /\ error[t] = Nil
          /\ \A t \in TicketIds :
                Abandoned(t) => GetTokenResponse(APP_API_KEY, t).status = "pending")
    /\ [][ \A t \in TicketIds :
              /\ (t \in Range(queue') /\ t \notin Range(queue))
                    => (answered[t] = 0 /\ created'[t] # NoBody)
              /\ Abandoned(t) => (Abandoned(t)' \/ ExpirePayload(t)) ]_vars

\* The invocation that popped the first ticket has ended without a record
\* (its read of the payload was rejected); the ticket is answered pending
\* while the second ticket got its result.
C12_Witness ==
    /\ Abandoned(1)
    /\ GetTokenResponse(APP_API_KEY, 1).status = "pending"
    /\ result[2] # {}
    /\ activeWorkers = 0

\* The step is one in which an exception is raised in the invocation that
\* popped t: the read of the payload is rejected, the attempt throws, or
\* the write of the outcome is rejected.
Raises(t) ==
    \/ GetPayloadFails(t)
    \/ \E written \in BOOLEAN : OutcomeWriteFails(t, written)
    \/ CatchWriteFails(t)
    \/ /\ workers[t].pc \in {"resolve", "retry"}
       /\ \E a \in Attempts(workers[t].payload) :
             a.threw /\ (ResolveWith(t, a) \/ RetryWith(t, a))

\* C13 (as stated): every step in which an exception is raised in the
\* invocation that popped a ticket leaves an error record for that ticket,
\* and the invocation goes on to its sleep instead of being left by the
\* exception.
C13_ExceptionsBecomeErrorRecords ==
    [][ \A t \in TicketIds :
            (workers[t].pc # "idle" /\ Raises(t))
            => (error'[t] # Nil /\ workers'[t].pc = "sleep") ]_vars

\* The ids whose create-ticket call was answered 429 or 500.
FailedIds == { t \in TicketIds : answered[t] \in FailureCodes }

BadKeys == ApiKeys \ {APP_API_KEY}

\* C14: a request without the X-API-Key header or with another value than
\* the configured key is answered 401, with no ticket id, status or token
\* of a ticket in the answer, and no step that changes the state is the
\* step of such a request.
C14_UnauthorizedHasNoEffect ==
    /\ [](\A key \in BadKeys :
            /\ \A b \in Bodies :
                  CreateTicketResponse(key, b)
                    = [code |-> 401, ticket_id |-> NoTicket,
                       status |-> "Unauthorized"]
            /\ \A t \in TicketIds :
                  GetTokenResponse(key, t)
                    = [code |-> 401, status |-> "Unauthorized", message |-> Nil,
                       sunat_token |-> EmptyBundle])
    /\ [][ \A key \in BadKeys :
              /\ \A b \in Bodies : ~CreateTicket(key, b)
              /\ \A t \in TicketIds : ~GetToken(key, t) ]_vars

\* A fulfilled ticket for which get-token answers ok under the configured
\* key and 401 without the header.
C14_Witness ==
    \E t \in TicketIds :
        /\ GetTokenResponse(APP_API_KEY, t).status = "ok"
        /\ GetTokenResponse(NoApiKey, t).code = 401
        /\ CreateTicketResponse("wrong", created[t]).code = 401

\* C15 (as stated): no ticket is created for a body whose targets array is
\* empty, create-ticket never answers reused to such a body, and no result
\* record holds a bundle without any token.
C15_EmptyTargetsRejected ==
    /\ \A t \in TicketIds : created[t] # NoBody => created[t].targets # << >>
    /\ \A b \in SchemaBodies :
          b.targets = << >> => CreateTicketResponse(APP_API_KEY, b).status # "reused"
    /\ \A t \in TicketIds : result[t] # {} => bundleOf(t) # EmptyBundle

\* C17: when a call of scraper.getSunatTokens is not running (it has
\* returned or thrown, or none was made) no page it opened is open, and a
\* running call holds open at most the page of the family it is in.
C17_PagesAreClosed ==
    /\ attempt.pc \in {"idle", "returned", "threw"} => attempt.pages = {}
    /\ attempt.pc \in {"legacyNewPage", "ltsNewPage"} => attempt.pages = {}
    /\ attempt.pages \subseteq {"legacy"} \/ attempt.pages \subseteq {"lts"}

\* A call that opened both pages in turn has ended, by a return after the
\* catch of resolveLTSTokens.
C17_Witness ==
    /\ attempt.pc = "returned"
    /\ attempt.logins = 2
    /\ attempt.checkFailed
    /\ attempt.pages = {}

\* C18 (as stated): in the bundle a call returns, every target a token was
\* extracted for holds a token, and a call that has ended began the
\* resolution of every requested target once it began that of one.
C18_TargetsAreIndependent ==
    /\ attempt.pc = "returned" =>
          \A target \in attempt.extracted :
              /\ target = "sire" => attempt.bundle.sire # NullToken
              /\ target = "cpe" => attempt.bundle.cpe # NullToken
              /\ target = "unified-platform" =>
                     attempt.bundle.unified_platform # NullToken
    /\ attempt.pc \in {"returned", "threw"} /\ attempt.attempted # {} =>
          Range(attempt.payload.targets) \subseteq attempt.attempted

\* C19 (as stated): after a title check failed, the call begins no family
\* and submits no login.
C19_FailedLoginAborts ==
    /\ attempt.begunAfterFail = {}
    /\ attempt.loginsAfterFail = 0

\* C20 (as stated): no call of scraper.getSunatTokens throws.
C20_NeverThrows == attempt.pc # "threw"

\* C21 (as stated): at most one browser process runs at a time, the
\* variable browser refers to it, and every caller inside the scraper uses
\* the browser the variable refers to.
C21_OneBrowserAtATime ==
    chrome.shutdown = "no" =>
        /\ Cardinality(chrome.live) <= 1
        /\ chrome.live \subseteq {chrome.handle}
        /\ \A w \in Callers :
              chrome.callers[w].pc = "scraping" =>
                  chrome.callers[w].uses = chrome.handle

\* C22 (as stated): no caller enters the scraper with a handle whose
\* browser had ended when the caller read the variable.
C22_DeadHandleIsReplaced ==
    \A w \in Callers : ~chrome.callers[w].reusedDead

\* C23 (as stated): no timer period ends with the handle still held while
\* no context is open.
C23_IdleBrowserIsReleased ==
    chrome.handle # NoBrowser => chrome.idlePeriods = 0

\* C24: the step in which chromium.launch rejects writes the error record
\* 'internal server error' and no result record for the ticket in work,
\* leaves the variable browser without a handle and sends the invocation
\* to its sleep, so that get-token answers 500 for the ticket; the slots
\* taken are those of the invocations under way, so the ticker admits new
\* ones; and an attempt that finds no handle launches: it ends with a
\* handle or with a rejected launch.
C24_LaunchFailureIsNotFatal ==
    /\ [](InFlight = activeWorkers /\ InFlight <= MAX_CONCURRENT_WORKERS)
    /\ [][ \A t \in TicketIds :
              /\ LaunchFails(t) =>
                    /\ error'[t] = ERR_INTERNAL /\ result'[t] = {}
                    /\ browser' = FALSE
                    /\ workers'[t].pc = "sleep"
                    /\ activeWorkers' = activeWorkers
                    /\ payloadExists(t) =>
                          GetTokenResponse(APP_API_KEY, t)'.code = 500
              /\ ( /\ browser = FALSE
                   /\ workers[t].pc \in {"resolve", "retry"}
                   /\ workers'[t] # workers[t] )
                 => (browser' = TRUE \/ LaunchFails(t)) ]_vars

\* The launch failed for the first ticket, whose invocation has released
\* its slot; the second ticket was then resolved with a browser launched
\* for it.
C24_Witness ==
    /\ error[1] = ERR_INTERNAL /\ workers[1].pc = "idle"
    /\ GetTokenResponse(APP_API_KEY, 1).code = 500
    /\ result[2] # {} /\ browser = TRUE
    /\ cache[cacheKey(created[1])] = {}

\* A record is written for t in the step.
Written(t) ==
    \/ result[t] = {} /\ result'[t] # {}
    \/ error[t] = Nil /\ error'[t] # Nil

\* The step that writes a record for a ticket sends the id to every socket
\* that is open, and an id is sent only in a step that writes a record for
\* it, after which get-token does not answer pending for it.
NotifiedOnWrite ==
    [][ \A t \in TicketIds : \A c \in Sockets :
          /\ (Written(t) /\ wsClients[c] = "open")
                => sent'[c] = Append(sent[c], t)
          /\ (sent'[c] # sent[c] /\ sent'[c] = Append(sent[c], t))
                => ( /\ Written(t)
                     /\ GetTokenResponse(APP_API_KEY, t)'.status # "pending" ) ]_vars

\* C25 (as stated): the step that writes a record for a ticket sends the id
\* to every open socket, an id is sent only once its record is written, and
\* get-token never answers pending for an id a socket has been sent.
C25_NotifiedNeverSeesPending ==
    /\ NotifiedOnWrite
    /\ [](\A c \in Sockets : \A t \in Range(sent[c]) :
            GetTokenResponse(APP_API_KEY, t).status # "pending")

\* C26: an invocation makes its first call of resolveSunatTokens and at
\* most MAX_RETRIES more, so at most 4 for its ticket; of its calls only
\* the first was answered from the cache; and while it is in a retry the
\* bundle it holds misses a requested target.
C26_AtMostFourCalls ==
    \A t \in TicketIds :
        /\ workers[t].retries <= MAX_RETRIES
        /\ 1 + workers[t].retries <= 4
        /\ t \in DOMAIN ticketRetries => ticketRetries[t] <= MAX_RETRIES
        /\ workers[t].hits \subseteq {1}
        /\ workers[t].pc = "retry" =>
              /\ workers[t].retries >= 1
              /\ ~areTargetsFulfilled(workers[t].result, workers[t].payload.targets)

\* An invocation whose first call was answered from the cache with a bundle
\* that misses a target is in its third retry.
C26_Witness ==
    \E t \in TicketIds :
        /\ workers[t].pc = "retry"
        /\ workers[t].retries = MAX_RETRIES
        /\ workers[t].hits = {1}
        /\ cache[cacheKey(workers[t].payload)] # {}

\* C27 (as stated): a retry that returns leaves in the bundle the invocation
\* holds a token for every target the bundle held one for before.
C27_BundleOnlyGains ==
    [][ \A t \in TicketIds :
            workers[t].pc = "retry" =>
                \A a \in Attempts(workers[t].payload) :
                    (~a.threw /\ RetryWith(t, a))
                    => Got(workers[t].result) \subseteq Got(heldAfter(t, a)) ]_vars

\* The tokens of a bundle.
tokensOf(res) == {res.sire, res.cpe, res.unified_platform} \ {NullToken}

\* C28 (as stated): every token of a result record was obtained by a login
\* with the ruc, sol_username and sol_key of the ticket's own payload.
C28_OwnCredentialsOnly ==
    \A t \in TicketIds :
        result[t] # {} => tokensOf(bundleOf(t)) \subseteq {TokenOf(created[t])}


\* C29: no two invocations of processQueue that are in progress at the same
\* time write the same Result Cache key.  While another invocation u that
\* has already stored its bundle under its cacheKey (cache.set, part_002:128)
\* is still between its attempts, no invocation t of another ticket with the
\* same cacheKey completes a scrape, which would store under that key too.
\* (The Ticket Store keys carry the ticket id, and an invocation writes
\* those of its own ticket only.)
wroteCache(u) == workers[u].pc = "retry" /\ workers[u].hits = {}
C29_WritersNeverShareAKey ==
    [][ \A t, u \in TicketIds :
            ( /\ t # u
              /\ wroteCache(u)
              /\ workers[t].pc \in {"resolve", "retry"}
              /\ cacheKey(workers[t].payload) = cacheKey(workers[u].payload) )
            => \A a \in Attempts(workers[t].payload) :
                   ~a.threw => ~(ResolveWith(t, a) \/ RetryWith(t, a)) ]_vars

\* C30: once get-token has answered ok (200) or error (500) for a ticket
\* id, it never answers pending for that id again.
AnsweredOkOrError(t) ==
    /\ GetTokenResponse(APP_API_KEY, t).code \in {200, 500}
    /\ GetTokenResponse(APP_API_KEY, t).status \in {"ok", "error"}
C30_NeverBackToPending ==
    [][ \A t \in TicketIds :
            AnsweredOkOrError(t) => GetTokenResponse(APP_API_KEY, t)'.status # "pending" ]_vars


\* C31: whenever create-ticket answers reused with an id, get-token for
\* that id, asked in the same state, answers ok (200) with a bundle that
\* holds a token for every target of the request.
C31_ReusedIsReadable ==
    \A b \in Bodies :
        CreateTicketResponse(APP_API_KEY, b).status = "reused" =>
            LET r == GetTokenResponse(APP_API_KEY,
                                      CreateTicketResponse(APP_API_KEY, b).ticket_id)
            IN  /\ r.code = 200
                /\ r.status = "ok"
                /\ areTargetsFulfilled(r.sunat_token, b.targets)


\* C32: no ticket ever has both a result record and an error record, also
\* when a send of notifyViaWs fails after the result was written.
C32_ResultXorError ==
    \A t \in TicketIds : ~(result[t] # {} /\ error[t] # Nil)


\* C33: the lookup entry of a credential triple never names a ticket that
\* is pending (queued or being processed) or failed (error record stored).
InQueue(t) == \E i \in 1 .. Len(queue) : queue[i] = t
C33_LookupNamesFulfilled ==
    \A c \in Credentials :
        lookup[c] # NoTicket =>
            /\ ~InQueue(lookup[c])
            /\ workers[lookup[c]].pc \in {"idle", "sleep"}
            /\ error[lookup[c]] = Nil


\* C34: an invocation that has written the result or the error record of
\* its ticket gives its slot back only from sleep(800): a step in which
\* the invocation of a ticket holding a terminal record ends is the step
\* that follows the sleep.
C34_SlotReleasedAfterSleep ==
    [][ \A t \in TicketIds :
            ( /\ workers[t].pc \in {"resolve", "retry", "sleep"}
              /\ workers'[t].pc = "idle"
              /\ (result'[t] # {} \/ error'[t] # Nil) )
            => workers[t].pc = "sleep" ]_vars


\* C35: the step an invocation takes when redis.get finds no payload
\* record for the id it popped ends the invocation and gives the slot
\* back; it starts no resolution, leaves the result and error records, the
\* result cache and the browser as they are and sends nothing.
C35_MissingPayloadIsAbandoned ==
    [][ \A t \in TicketIds :
            (workers[t].pc = "get" /\ payload[t] = {} /\ workers'[t] # workers[t])
            => /\ workers'[t] = IdleWorker
               /\ activeWorkers' = activeWorkers - 1
               /\ UNCHANGED << result, error, cache, browser, ticketRetries, sent >> ]_vars

\* A ticket was dequeued and abandoned while a subscriber was listening:
\* it is out of the queue and of every invocation, has no record, and the
\* subscriber has been sent nothing.
C35_Witness ==
    \E t \in TicketIds, c \in Sockets :
        /\ created[t] # NoBody
        /\ ~InQueue(t)
        /\ workers[t].pc = "idle"
        /\ payload[t] = {} /\ result[t] = {} /\ error[t] = Nil
        /\ wsClients[c] = "open" /\ sent[c] = << >>
        /\ activeWorkers = 0


\* C36: activeWorkers is never negative and always equals the number of
\* processQueue invocations that passed the admission check and have not
\* reached their finally, whichever way they leave (empty queue, missing
\* payload, result, error, exception); with none in flight it is 0.
C36_CounterMatchesInvocations ==
    /\ activeWorkers >= 0
    /\ activeWorkers = InFlight

\* An invocation has left through an exception (no record was written for
\* the ticket it took, whose payload is still stored) and the counter is
\* back at 0.
C36_Witness ==
    \E t \in TicketIds :
        /\ created[t] # NoBody
        /\ ~InQueue(t)
        /\ workers[t].pc = "idle"
        /\ payload[t] # {} /\ result[t] = {} /\ error[t] = Nil
        /\ InFlight = 0
        /\ activeWorkers = 0


\* C37: an error record only ever holds one of the three fixed strings of
\* processQueue, and the message get-token answers with for a failed
\* ticket (500) is one of them; the text of an exception is never stored
\* or returned.
FixedMessages == {ERR_NOT_ALL, ERR_NO_TOKEN, ERR_INTERNAL}
C37_OnlyFixedMessages ==
    \A t \in TicketIds :
        /\ error[t] # Nil => error[t] \in FixedMessages
        /\ GetTokenResponse(APP_API_KEY, t).code = 500
              => GetTokenResponse(APP_API_KEY, t).message \in FixedMessages

\* An exception was caught while a ticket was processed, and get-token
\* answers 500 for it.
C37_Witness ==
    \E t \in TicketIds :
        /\ error[t] = ERR_INTERNAL
        /\ workers[t].pc = "sleep"
        /\ GetTokenResponse(APP_API_KEY, t).code = 500


\* C38: every bundle the result cache holds has a token for every target
\* of its key, so an invocation whose first call is answered from the
\* cache never goes on to a retry.
C38_CacheHoldsFulfilled ==
    /\ \A k \in CacheKeys :
          cache[k] # {} => areTargetsFulfilled(CHOOSE r \in cache[k] : TRUE, k[2])
    /\ \A t \in TicketIds :
          (1 \in workers[t].hits) => workers[t].pc # "retry"


\* C39: when the first attempt of a ticket ends with the login rejected
\* (the title check of scraper.ts:73-76 throws, resolveLegacyTokens returns
\* null), the step that takes the attempt's bundle records the ticket as
\* failed; it does not go on to a retry, each of which submits the login
\* form again.
loginRejected(p, env) ==
    /\ env.page
    /\ ~env.legacy
    /\ ("sire" \in Range(p.targets) \/ "cpe" \in Range(p.targets))
C39_RejectedLoginIsNotRetried ==
    [][ \A t \in TicketIds :
            workers[t].pc = "resolve" =>
                \A env \in Envs :
                    ( /\ loginRejected(workers[t].payload, env)
                      /\ ResolveWith(t, [threw |-> FALSE,
                                         bundle |-> getSunatTokens(workers[t].payload, env)]) )
                    => /\ error'[t] # Nil
                       /\ workers'[t].pc = "sleep" ]_vars


\* C40: a create-ticket that answers reused changes nothing: no payload
\* record is written, nothing is pushed to the queue, no id is used up,
\* and the lookup entry and the records of the reused ticket stay as they
\* are.
C40_ReusedChangesNothing ==
    [][ \A b \in Bodies :
            ( /\ CreateTicketResponse(APP_API_KEY, b).status = "reused"
              /\ CreateTicket(APP_API_KEY, b) )
            => UNCHANGED << queue, payload, result, error, lookup, cache,
                            nextId, created, answered >> ]_vars

\* A request is answered reused: its credentials' lookup entry names a
\* ticket whose result is stored and fulfils the targets asked for.
C40_Witness ==
    \E b \in Bodies :
        /\ CreateTicketResponse(APP_API_KEY, b).status = "reused"
        /\ lookup[lookupKey(b)] = CreateTicketResponse(APP_API_KEY, b).ticket_id
        /\ result[lookup[lookupKey(b)]] # {}
        /\ payload[lookup[lookupKey(b)]] # {}

====
